---- MODULE Spec2Model ----
(***************************************************************************)
(* FlowForge: the client canvas store (nodes, edges, the ancestor walk of  *)
(* getNodeContext), the canvas connect handler with the edges table, and   *)
(* the generation routes with the generations table.                       *)
(***************************************************************************)
EXTENDS Integers, Sequences, FiniteSets, TLC

VARIABLES
    nodes,        \* canvas store: FlowNode[]            (part_002:64)
    edges,        \* canvas store: FlowEdge[]            (part_002:65)
    rpc,          \* position of one getNodeContext call: "idle" | "walking" | "done"
    rtarget,      \* the nodeId argument of that call
    walk,         \* findParents: call stack, visited set, contextIds set
    result,       \* the NodeData[] the call returned
    lastRemoved,  \* the last store operation, when it was removeNode: its id, the nodes and edges before it
    selectedNodeId,   \* canvas store: string | null    (part_002:80)
    selectedNodeIds,  \* canvas store: string[]         (part_002:81)
    rfEdges,      \* StrategyCanvas: the React Flow edge list shown (strategy-canvas.tsx:72)
    dbEdges,      \* the rows of table edges                (schema.sql:51)
    inserts,      \* edge inserts sent by onConnect and not yet answered
    dbNodes,      \* the data column of the rows of table nodes (schema.sql:32)
    generations,  \* the rows of table generations, in insertion order (schema.sql:72)
    reqs,         \* the route requests in flight: per slot, the run's position and locals
    nodeData,     \* canvas store: the status and result fields of the data of each node, by node id
    handlers,     \* the node components: per node, the is...ing flag and the request its handler awaits
    designNode,   \* the DesignNode component mounted: "part_007" | "design-node.tsx"
    attempt,      \* history: the node and the generations as they were when the generation under way was started from a node
    context,      \* buildUserPrompt: its argument context, a NodeData[]
    contextPos,   \* buildUserPrompt: the number of entries of context its loop has gone through
    prompt,       \* buildUserPrompt: the sections appended to prompt for the context, in order
    exportCall,   \* the export route: the request being served, with its position, inputs and response
    chatCall,     \* the chat route: the request being served, with its position, inputs, history and response
    dbMessages,   \* the rows of table messages, in the order of created_at (schema.sql:89)
    chatStore,    \* chat store: messages and isLoading  (part_002:17)
    chatPanel,    \* the project whose editor (and ChatPanel) is mounted, if any
    chatSend      \* ChatPanel: the handleSend call awaiting its response, if any

store == <<nodes, edges, selectedNodeId, selectedNodeIds>>
resolver == <<rpc, rtarget, walk, result>>
canvas == <<rfEdges, dbEdges, inserts>>
gen == <<dbNodes, generations, reqs>>
client == <<nodeData, handlers, designNode, attempt>>
prompter == <<context, contextPos, prompt>>
exporter == <<exportCall>>
chatRoute == <<chatCall, dbMessages>>
chatClient == <<chatStore, chatPanel, chatSend>>
services == <<exporter, chatRoute, chatClient>>
beyondStore == <<resolver, canvas, gen, client, prompter, services>>
beyondGen == <<store, resolver, lastRemoved, canvas, client, prompter, services>>

vars == <<nodes, edges, rpc, rtarget, walk, result, lastRemoved, selectedNodeId,
          selectedNodeIds, rfEdges, dbEdges, inserts, dbNodes, generations, reqs,
          nodeData, handlers, designNode, attempt, context, contextPos, prompt,
          exportCall, chatCall, dbMessages, chatStore, chatPanel, chatSend>>

-----------------------------------------------------------------------------
(* Bounds *)

\* Longest edge list the store holds in the resolver's input states.
MaxEdges == 3

\* Longest edge list the store grows to under its own operations.
MaxStoreEdges == 2

\* Longest edge list one setEdges loads.
MaxLoad == 1

\* The node ids in play: the example graph of the specification, P1 -> D1 -> G1.
NodeIds == {"P1", "D1", "G1"}

NoId == "none"

-----------------------------------------------------------------------------
(* Helpers on sequences *)

Range(s) == {s[k] : k \in 1..Len(s)}

Min(S) == CHOOSE x \in S : \A y \in S : x <= y

\* Array.prototype.filter with the predicate "id in keep" on records with an id
SelectIds(s, keep) == SelectSeq(s, LAMBDA n : n.id \in keep)

\* All sequences without repetition over the set S (every order of every subset)
RECURSIVE Perms(_)
Perms(S) ==
    IF S = {} THEN {<<>>}
    ELSE {<<>>} \cup UNION {{<<x>> \o p : p \in Perms(S \ {x})} : x \in S}

\* All sequences over S of length at most n
RECURSIVE SeqsUpTo(_, _)
SeqsUpTo(S, n) ==
    IF n = 0 THEN {<<>>}
    ELSE LET shorter == SeqsUpTo(S, n - 1)
         IN  shorter \cup {Append(s, x) : s \in {t \in shorter : Len(t) = n - 1}, x \in S}

-----------------------------------------------------------------------------
(* Types: FlowNode and FlowEdge *)

NodeTypeOf(id) ==
    CASE id = "P1" -> "project"
      [] id = "D1" -> "design"
      [] id = "G1" -> "page"
      [] id = "K1" -> "competitor"
      [] OTHER     -> "section"

\* The NodeData of a node. Every node's data names the node, so that an entry of
\* a NodeData[] tells which node it was taken from.
DataOf(id) == [type |-> NodeTypeOf(id), name |-> id]

FlowNode(id) == [id |-> id, data |-> DataOf(id)]

FlowEdge(id, s, t) == [id |-> id, source |-> s, target |-> t]

\* The n-th id that generateId() (crypto.randomUUID) or the edges table hands out
Uuid(n) == <<"uuid", n>>

NodeIdsOf(ns) == {ns[k].id : k \in 1..Len(ns)}

\* Node lists with distinct ids, in every order
NodeLists == {[k \in 1..Len(p) |-> FlowNode(p[k])] : p \in Perms(NodeIds)}

EdgePairs == NodeIds \X NodeIds

\* Edge lists of at most n edges; the k-th edge carries the k-th id
EdgeLists(n) ==
    {[k \in 1..Len(p) |-> FlowEdge(Uuid(k), p[k][1], p[k][2])] : p \in SeqsUpTo(EdgePairs, n)}

-----------------------------------------------------------------------------
(* getNodeContext: the walk up the graph *)

EmptyWalk == [stack |-> <<>>, visited |-> {}, contextIds |-> {}]

\* Mutant of findParentsCall: the visited check is missing
findParentsCallUnchecked(w, id) ==
    [stack      |-> Append(w.stack, [id |-> id, i |-> 1]),
     visited    |-> w.visited \cup {id},
     contextIds |-> w.contextIds \cup {id}]

\* Entry of findParents(id, visited): return at once when id was visited, else
\* mark it, add it to contextIds and start its edges.forEach at the first edge.
findParentsCall(w, id) ==
    IF id \in w.visited
    THEN w
    ELSE [stack      |-> Append(w.stack, [id |-> id, i |-> 1]),
          visited    |-> w.visited \cup {id},
          contextIds |-> w.contextIds \cup {id}]

\* Index of the next edge at or after i whose target is id; 0 when there is none
NextMatch(es, id, i) ==
    LET M == {k \in i..Len(es) : es[k].target = id}
    IN  IF M = {} THEN 0 ELSE Min(M)

\* Mutant of findParentsStep: the forEach stops at the first edge that matches
findParentsStepFirstOnly(w, es) ==
    LET n   == Len(w.stack)
        top == w.stack[n]
        k   == NextMatch(es, top.id, top.i)
    IN  IF k = 0
        THEN [w EXCEPT !.stack = SubSeq(w.stack, 1, n - 1)]
        ELSE findParentsCall([w EXCEPT !.stack[n].i = Len(es) + 1], es[k].source)

\* One step of the innermost running findParents: its forEach runs on to the
\* next edge that targets its id and calls findParents on that edge's source;
\* when no such edge is left the call returns.
findParentsStep(w, es) ==
    LET n   == Len(w.stack)
        top == w.stack[n]
        k   == NextMatch(es, top.id, top.i)
    IN  IF k = 0
        THEN [w EXCEPT !.stack = SubSeq(w.stack, 1, n - 1)]
        ELSE findParentsCall([w EXCEPT !.stack[n].i = k + 1], es[k].source)

\* Mutant of ContextData: the entries are collected back to front
ContextDataReversed(ns, ids) ==
    LET kept == SelectIds(ns, ids)
    IN  [k \in 1..Len(kept) |-> kept[Len(kept) + 1 - k].data]

\* nodes.filter((n) => contextIds.has(n.id)).map((n) => n.data)
ContextData(ns, ids) ==
    LET kept == SelectIds(ns, ids)
    IN  [k \in 1..Len(kept) |-> kept[k].data]

\* The whole synchronous call, run to its return
RECURSIVE RunFindParents(_, _)
RunFindParents(w, es) ==
    IF w.stack = <<>> THEN w ELSE RunFindParents(findParentsStep(w, es), es)

getNodeContext(ns, es, nodeId) ==
    ContextData(ns, RunFindParents(findParentsCall(EmptyWalk, nodeId), es).contextIds)

-----------------------------------------------------------------------------
(* The persisted nodes, table generations and the requests to the routes *)

\* The persisted nodes the routes are run on: a competitor and a page
GenNodeIds == {"K1", "G1"}

\* The callers: the owner of the project, another signed-in user, nobody
Owner == "u1"
Callers == {"u1", "u2", "anon"}

Routes == {"analyze", "design-extract", "generate-prd", "generate"}

\* Most rows table generations grows to
MaxGenerations == 3

\* Route requests that can be in flight at once
MaxRequests == 2

ReqIds == 1..MaxRequests

\* The status a node of this type is created with (strategy-canvas.tsx:149-158)
InitialStatus(type) ==
    CASE type = "competitor" -> "pending"
      [] type = "design"     -> "pending"
      [] type = "page"       -> "planning"
      [] type = "section"    -> "draft"
      [] OTHER               -> "none"

\* The data column of a node as created: no result yet. analysis and extraction
\* tell whether the field is set, prd and content carry the version written
\* with them (0: the field is absent).
NewNodeData(id) ==
    [type       |-> NodeTypeOf(id),
     name       |-> "new",
     status     |-> InitialStatus(NodeTypeOf(id)),
     analysis   |-> FALSE,
     extraction |-> FALSE,
     prd        |-> 0,
     content    |-> 0]

\* The type column the route writes to generations
KindOf(route) ==
    CASE route = "analyze"        -> "analysis"
      [] route = "design-extract" -> "analysis"
      [] route = "generate-prd"   -> "prd"
      [] route = "generate"       -> "code"

\* The status the route writes before its AI call
InProgressOf(route) ==
    CASE route = "analyze"        -> "analyzing"
      [] route = "design-extract" -> "extracting"
      [] route = "generate-prd"   -> "building"
      [] route = "generate"       -> "none"

\* The status the route's catch block writes
FailedOf(route) ==
    CASE route = "analyze"        -> "error"
      [] route = "design-extract" -> "error"
      [] route = "generate-prd"   -> "planning"
      [] route = "generate"       -> "none"

\* A request as it arrives: nothing read yet, no version computed, no row saved
\* (generationData), no response
NewReq(route, user, id) ==
    [pc |-> "auth", route |-> route, user |-> user, nodeId |-> id,
     currentData |-> NewNodeData(NoId), newVersion |-> 0, saved |-> FALSE,
     status |-> 0]

\* The requests in flight
InFlight == DOMAIN reqs

\* Is request r in flight and at this point of its route?
At(r, pc) == r \in InFlight /\ reqs[r].pc = pc

\* The tables as the requests find them: the rows of the nodes, none generated
\* yet, no generation record, and no request in flight
GenTables ==
    /\ dbNodes = [id \in GenNodeIds |-> NewNodeData(id)]
    /\ generations = <<>>
    /\ reqs = <<>>

\* No route is called: no row of nodes or generations is read or written
GenIdle ==
    /\ dbNodes = <<>>
    /\ generations = <<>>
    /\ reqs = <<>>

\* No node component is mounted
ClientIdle ==
    /\ nodeData = <<>>
    /\ handlers = <<>>
    /\ designNode = "part_007"
    /\ attempt = <<>>

\* No prompt is being built
PromptIdle ==
    /\ context = <<>>
    /\ contextPos = 0
    /\ prompt = <<>>

\* The chat store as created
EmptyChatStore == [messages |-> <<>>, isLoading |-> FALSE]

\* No request to the export route or the chat route, no message stored, no
\* project open
ServicesIdle ==
    /\ exportCall = <<>>
    /\ chatCall = <<>>
    /\ dbMessages = <<>>
    /\ chatStore = EmptyChatStore
    /\ chatPanel = NoId
    /\ chatSend = <<>>

-----------------------------------------------------------------------------
(* The canvas store's operations: SpecStore *)

NotRemoved == [id |-> NoId, nodes |-> <<>>, edges |-> <<>>]

EdgeIdsOf(es) == {es[k].id : k \in 1..Len(es)}

\* Every id an edge of the list names as source or target
EndpointsOf(es) == {es[k].source : k \in 1..Len(es)} \cup {es[k].target : k \in 1..Len(es)}

\* generateId() for an edge: crypto.randomUUID(), an id no edge of the store has.
\* Ids are only compared, so the least unused number stands for it.
FreshEdgeId(es) == Uuid(Min({n \in 1..(Len(es) + 1) : Uuid(n) \notin EdgeIdsOf(es)}))

\* generateId() for a node: an id that occurs nowhere in the store
FreshNodeIds(ns, es) == NodeIds \ (NodeIdsOf(ns) \cup EndpointsOf(es))

\* setNodes: (nodes) => set({ nodes })
setNodes(ns) ==
    /\ nodes' = ns
    /\ lastRemoved' = NotRemoved
    /\ UNCHANGED <<edges, selectedNodeId, selectedNodeIds, beyondStore>>

\* setEdges: (edges) => set({ edges })
setEdges(es) ==
    /\ edges' = es
    /\ lastRemoved' = NotRemoved
    /\ UNCHANGED <<nodes, selectedNodeId, selectedNodeIds, beyondStore>>

\* addNode: a fresh id, the node appended
addNode(id) ==
    /\ id \in FreshNodeIds(nodes, edges)
    /\ nodes' = Append(nodes, FlowNode(id))
    /\ lastRemoved' = NotRemoved
    /\ UNCHANGED <<edges, selectedNodeId, selectedNodeIds, beyondStore>>

\* Mutant of EdgesWithout: only the edges leaving the node are dropped
EdgesWithoutOutgoing(es, id) == SelectSeq(es, LAMBDA e : e.source # id)

\* The edge list after removeNode(id)
EdgesWithout(es, id) == SelectSeq(es, LAMBDA e : e.source # id /\ e.target # id)

\* removeNode: the node filtered out, every edge it is an end of filtered out,
\* selectedNodeId cleared when it was the node
removeNode(id) ==
    /\ nodes' = SelectSeq(nodes, LAMBDA n : n.id # id)
    /\ edges' = EdgesWithout(edges, id)
    /\ selectedNodeId' = IF selectedNodeId = id THEN NoId ELSE selectedNodeId
    /\ lastRemoved' = [id |-> id, nodes |-> nodes, edges |-> edges]
    /\ UNCHANGED <<selectedNodeIds, beyondStore>>

\* The edge list after addEdge({source, target}): a fresh id, the edge appended
EdgesWith(es, s, t) == Append(es, FlowEdge(FreshEdgeId(es), s, t))

addEdge(s, t) ==
    /\ Len(edges) < MaxStoreEdges
    /\ edges' = EdgesWith(edges, s, t)
    /\ lastRemoved' = NotRemoved
    /\ UNCHANGED <<nodes, selectedNodeId, selectedNodeIds, beyondStore>>

\* removeEdge: every edge with this id filtered out
removeEdge(id) ==
    /\ edges' = SelectSeq(edges, LAMBDA e : e.id # id)
    /\ lastRemoved' = NotRemoved
    /\ UNCHANGED <<nodes, selectedNodeId, selectedNodeIds, beyondStore>>

\* reset: () => set(initialState)
reset ==
    /\ nodes' = <<>>
    /\ edges' = <<>>
    /\ selectedNodeId' = NoId
    /\ selectedNodeIds' = <<>>
    /\ lastRemoved' = NotRemoved
    /\ UNCHANGED beyondStore

\* initialState of the canvas store (part_002:107-117)
StoreEmpty ==
    /\ nodes = <<>>
    /\ edges = <<>>
    /\ selectedNodeId = NoId
    /\ selectedNodeIds = <<>>

\* No getNodeContext call under way
ResolverIdle ==
    /\ rpc = "idle"
    /\ rtarget = NoId
    /\ walk = EmptyWalk
    /\ result = <<>>
    /\ lastRemoved = NotRemoved

\* The canvas shows no edge, table edges is empty, no insert is under way
CanvasIdle ==
    /\ rfEdges = <<>>
    /\ dbEdges = <<>>
    /\ inserts = <<>>

InitStore ==
    /\ StoreEmpty
    /\ ResolverIdle
    /\ CanvasIdle
    /\ GenIdle
    /\ ClientIdle
    /\ PromptIdle
    /\ ServicesIdle

\* The edge lists setEdges is called with
LoadedEdgeLists == EdgeLists(MaxLoad)

\* The operations of the store in any order; setEdges is called by the editor's
\* mount effect alone, on a store that holds no edges yet
NextStore ==
    \/ \E ns \in NodeLists : setNodes(ns)
    \/ \E es \in LoadedEdgeLists : edges = <<>> /\ setEdges(es)
    \/ \E id \in NodeIds : addNode(id)
    \/ \E id \in NodeIds : removeNode(id)
    \/ \E s, t \in NodeIds : addEdge(s, t)
    \/ \E n \in 1..(MaxStoreEdges + 1) : removeEdge(Uuid(n))
    \/ reset

SpecStore == InitStore /\ [][NextStore]_vars

-----------------------------------------------------------------------------
(* The strategy canvas with the edges table: SpecCanvas *)

\* Most edges the canvas shows, and most rows of table edges (those being
\* inserted included)
MaxCanvasEdges == 2

\* The id onConnect gives its edge: `e${source}-${target}`
ConnectId(s, t) == <<"e", s, t>>

\* A row of table edges
EdgeRow(id, s, t) == [id |-> id, source_id |-> s, target_id |-> t]

\* idx_edges_unique: is there a row with this (source_id, target_id)?
HasRow(rows, s, t) == \E k \in 1..Len(rows) : rows[k].source_id = s /\ rows[k].target_id = t

\* transformEdges: the rows of table edges as the store's FlowEdges
transformEdges(rows) ==
    [k \in 1..Len(rows) |-> FlowEdge(rows[k].id, rows[k].source_id, rows[k].target_id)]

RemoveAt(s, k) == SubSeq(s, 1, k - 1) \o SubSeq(s, k + 1, Len(s))

\* onConnect up to its await: the new edge is appended to the edges the canvas
\* shows and the insert is sent. The store is not told.
onConnect(s, t) ==
    /\ Len(rfEdges) < MaxCanvasEdges
    /\ Len(dbEdges) + Len(inserts) < MaxCanvasEdges
    /\ rfEdges' = Append(rfEdges, FlowEdge(ConnectId(s, t), s, t))
    /\ inserts' = Append(inserts, [source_id |-> s, target_id |-> t])
    /\ UNCHANGED <<store, resolver, lastRemoved, dbEdges, gen, client, prompter, services>>

\* The insert of onConnect reaches the table. Both nodes exist, so the foreign
\* keys hold; the unique index rejects a second row for the same pair. onConnect
\* answers an error with console.error and nothing else.
InsertEdge(k) ==
    /\ k \in 1..Len(inserts)
    /\ dbEdges' = IF HasRow(dbEdges, inserts[k].source_id, inserts[k].target_id)
                  THEN dbEdges
                  ELSE Append(dbEdges, EdgeRow(Uuid(Len(dbEdges) + 1),
                                               inserts[k].source_id, inserts[k].target_id))
    /\ inserts' = RemoveAt(inserts, k)
    /\ UNCHANGED <<store, resolver, lastRemoved, rfEdges, gen, client, prompter, services>>

\* The store's addEdge with the canvas mounted: the effect on [edges] copies the
\* store's edges to the canvas
addEdgeShown(s, t) ==
    /\ Len(edges) < MaxCanvasEdges
    /\ edges' = EdgesWith(edges, s, t)
    /\ rfEdges' = edges'
    /\ lastRemoved' = NotRemoved
    /\ UNCHANGED <<nodes, selectedNodeId, selectedNodeIds, resolver, dbEdges, inserts, gen, client, prompter, services>>

\* The project page is loaded again: setEdges(transformEdges(initialEdges)) with
\* the rows of the table, then the effect on [edges]
loadEdges ==
    /\ edges # transformEdges(dbEdges) \/ rfEdges # transformEdges(dbEdges)
    /\ edges' = transformEdges(dbEdges)
    /\ rfEdges' = edges'
    /\ lastRemoved' = NotRemoved
    /\ UNCHANGED <<nodes, selectedNodeId, selectedNodeIds, resolver, dbEdges, inserts, gen, client, prompter, services>>

\* A project with the three nodes and no edge, opened in the editor
InitCanvas ==
    /\ nodes = <<FlowNode("P1"), FlowNode("D1"), FlowNode("G1")>>
    /\ edges = <<>>
    /\ selectedNodeId = NoId
    /\ selectedNodeIds = <<>>
    /\ ResolverIdle
    /\ CanvasIdle
    /\ GenIdle
    /\ ClientIdle
    /\ PromptIdle
    /\ ServicesIdle

NextCanvas ==
    \/ \E s, t \in NodeIds : onConnect(s, t)
    \/ \E k \in 1..MaxCanvasEdges : InsertEdge(k)
    \/ \E s, t \in NodeIds : addEdgeShown(s, t)
    \/ loadEdges

SpecCanvas == InitCanvas /\ [][NextCanvas]_vars

-----------------------------------------------------------------------------
(* The resolver call as a process: SpecResolve *)

ResolveStart(t) ==
    /\ rpc = "idle"
    /\ rpc' = "walking"
    /\ rtarget' = t
    /\ walk' = findParentsCall(EmptyWalk, t)
    /\ UNCHANGED <<store, result, lastRemoved, canvas, gen, client, prompter, services>>

ResolveStep ==
    /\ rpc = "walking"
    /\ walk.stack # <<>>
    /\ walk' = findParentsStep(walk, edges)
    /\ UNCHANGED <<store, rpc, rtarget, result, lastRemoved, canvas, gen, client, prompter, services>>

ResolveReturn ==
    /\ rpc = "walking"
    /\ walk.stack = <<>>
    /\ result' = ContextData(nodes, walk.contextIds)
    /\ rpc' = "done"
    /\ UNCHANGED <<store, rtarget, walk, lastRemoved, canvas, gen, client, prompter, services>>

InitResolve ==
    /\ nodes \in NodeLists
    /\ edges \in EdgeLists(MaxEdges)
    /\ selectedNodeId = NoId
    /\ selectedNodeIds = <<>>
    /\ ResolverIdle
    /\ CanvasIdle
    /\ GenIdle
    /\ ClientIdle
    /\ PromptIdle
    /\ ServicesIdle

NextResolve ==
    \/ \E t \in NodeIds : ResolveStart(t)
    \/ ResolveStep
    \/ ResolveReturn

SpecResolve == InitResolve /\ [][NextResolve]_vars

\* The same call on graphs proper (every id an edge can name is a node of the
\* store). The walk finds a node by its id (nodes.find), so the order of the
\* store's list does not enter it: the nodes are held in the order they were
\* added. The call is one synchronous JavaScript function: once entered it runs
\* on, which is the weak fairness of its steps.
InitWalk ==
    /\ InitResolve
    /\ nodes = <<FlowNode("P1"), FlowNode("D1"), FlowNode("G1")>>

SpecWalk ==
    InitWalk /\ [][NextResolve]_vars /\ WF_vars(ResolveStep) /\ WF_vars(ResolveReturn)

-----------------------------------------------------------------------------
(* The generation routes: analyze, design-extract, generate-prd, generate *)

Max(S) == CHOOSE x \in S : \A y \in S : y <= x

\* The versions of the rows of generations with this node_id and type
VersionsOf(gs, id, kind) ==
    {gs[k].version : k \in {j \in 1..Len(gs) : gs[j].node_id = id /\ gs[j].type = kind}}

\* select version ... order("version", descending) limit 1, then + 1; 1 when
\* no row matches (route.ts:605-614 and 889-899)
NextVersion(gs, id, kind) ==
    IF VersionsOf(gs, id, kind) = {} THEN 1 ELSE Max(VersionsOf(gs, id, kind)) + 1

\* The version column of the row a request inserts: generate-prd and generate
\* insert the newVersion they computed, analyze and design-extract the literal 1
InsertedVersion(req) ==
    IF req.route \in {"generate-prd", "generate"} THEN req.newVersion ELSE 1

\* Row-level security: a node is visible to the owner of its project only
Visible(user, id) == id \in DOMAIN dbNodes /\ user = Owner

\* update nodes set data = ... where id = ...: no row changes when the node is
\* gone
UpdatedNodes(rows, id, data) ==
    IF id \in DOMAIN rows THEN [rows EXCEPT ![id] = data] ELSE rows

\* The row takes the place of the table's last row
InsertedOverLastRow(gs, row, rows) ==
    IF gs = <<>> THEN <<row>> ELSE [gs EXCEPT ![Len(gs)] = row]

\* insert into generations: the row joins the table; the foreign key node_id
\* refuses a row for a node that is gone
InsertedRows(gs, row, rows) ==
    IF row.node_id \in DOMAIN rows THEN Append(gs, row) ELSE gs

Respond(r, code) == [reqs EXCEPT ![r].pc = "done", ![r].status = code]

\* The rows of generations and the requests that may still insert one stay
\* below the cap
BelowCap ==
    Len(generations) + Cardinality({q \in InFlight : reqs[q].pc # "done"}) < MaxGenerations

\* The requests in flight with a new one in slot r
WithRequest(r, route, user, id) ==
    [q \in InFlight \cup {r} |-> IF q = r THEN NewReq(route, user, id) ELSE reqs[q]]

\* A request arrives: the route, the caller, the node it names
RouteStart(r, route, user, id) ==
    /\ r \in ReqIds \ InFlight
    /\ BelowCap
    /\ reqs' = WithRequest(r, route, user, id)
    /\ UNCHANGED <<dbNodes, generations, beyondGen>>

\* supabase.auth.getUser(): 401 without a user; then the body: 400 without a
\* nodeId
RouteAuth(r) ==
    /\ At(r, "auth")
    /\ reqs' = IF reqs[r].user = "anon"
               THEN Respond(r, 401)
               ELSE IF reqs[r].nodeId = NoId
               THEN Respond(r, 400)
               ELSE [reqs EXCEPT ![r].pc = "lookup"]
    /\ UNCHANGED <<dbNodes, generations, beyondGen>>

\* select the node: 404 when it is not found or not the caller's; generate-prd
\* answers 400 for a node that is no page; generate goes on to the AI call
\* without a status write, the others keep the data read as currentData
RouteLookup(r) ==
    /\ At(r, "lookup")
    /\ reqs' =
         IF ~Visible(reqs[r].user, reqs[r].nodeId)
         THEN Respond(r, 404)
         ELSE IF reqs[r].route = "generate-prd" /\ dbNodes[reqs[r].nodeId].type # "page"
         THEN Respond(r, 400)
         ELSE IF reqs[r].route = "generate"
         THEN [reqs EXCEPT ![r].pc = "ai"]
         ELSE [reqs EXCEPT ![r].pc = "begin", ![r].currentData = dbNodes[reqs[r].nodeId]]
    /\ UNCHANGED <<dbNodes, generations, beyondGen>>

\* update nodes set data = {...currentData, status: <in progress>}
RouteBegin(r) ==
    /\ At(r, "begin")
    /\ dbNodes' = UpdatedNodes(dbNodes, reqs[r].nodeId,
                      [reqs[r].currentData EXCEPT !.status = InProgressOf(reqs[r].route)])
    /\ reqs' = [reqs EXCEPT ![r].pc = "ai"]
    /\ UNCHANGED <<generations, beyondGen>>

\* The AI call (for design-extract the scrape before it too) answers
RouteAiAnswers(r) ==
    /\ At(r, "ai")
    /\ reqs' = [reqs EXCEPT ![r].pc =
                  IF reqs[r].route \in {"generate-prd", "generate"} THEN "version" ELSE "update"]
    /\ UNCHANGED <<dbNodes, generations, beyondGen>>

\* The AI call throws: control passes to the catch block
RouteAiThrows(r) ==
    /\ At(r, "ai")
    /\ reqs' = [reqs EXCEPT ![r].pc = "catch"]
    /\ UNCHANGED <<dbNodes, generations, beyondGen>>

\* generate-prd and generate read the current version and add one
RouteReadVersion(r) ==
    /\ At(r, "version")
    /\ reqs' = [reqs EXCEPT
                  ![r].newVersion = NextVersion(generations, reqs[r].nodeId,
                                                KindOf(reqs[r].route)),
                  ![r].pc = IF reqs[r].route = "generate" THEN "insert" ELSE "update"]
    /\ UNCHANGED <<dbNodes, generations, beyondGen>>

\* The data the route writes with its result
ResultData(route, data, version) ==
    CASE route = "analyze"        -> [data EXCEPT !.analysis = TRUE, !.status = "complete"]
      [] route = "design-extract" -> [data EXCEPT !.extraction = TRUE, !.status = "complete"]
      [] route = "generate-prd"   -> [data EXCEPT !.prd = version, !.status = "complete"]
      [] route = "generate"       -> [data EXCEPT !.content = version]

\* update nodes set data = {...currentData, <result>, status: "complete"}; the
\* generate route merges into the data it reads at this point instead, and
\* writes nothing when the node is gone
RouteUpdateNode(r) ==
    /\ At(r, "update")
    /\ dbNodes' = IF reqs[r].nodeId \notin DOMAIN dbNodes
                  THEN dbNodes
                  ELSE UpdatedNodes(dbNodes, reqs[r].nodeId,
                           ResultData(reqs[r].route,
                                      IF reqs[r].route = "generate"
                                      THEN dbNodes[reqs[r].nodeId]
                                      ELSE reqs[r].currentData,
                                      reqs[r].newVersion))
    /\ reqs' = IF reqs[r].route = "generate"
               THEN Respond(r, 200)
               ELSE [reqs EXCEPT ![r].pc = "insert"]
    /\ UNCHANGED <<generations, beyondGen>>

\* insert into generations; analyze and design-extract insert version 1
RouteInsertGeneration(r) ==
    /\ At(r, "insert")
    /\ generations' = InsertedRows(generations,
                                   [node_id |-> reqs[r].nodeId,
                                    type    |-> KindOf(reqs[r].route),
                                    version |-> InsertedVersion(reqs[r])],
                                   dbNodes)
    /\ reqs' = IF reqs[r].route = "generate"
               THEN [reqs EXCEPT ![r].pc = "update", ![r].saved = generations' # generations]
               ELSE [Respond(r, 200) EXCEPT ![r].saved = generations' # generations]
    /\ UNCHANGED <<dbNodes, beyondGen>>

\* The catch block: analyze, design-extract and generate-prd read the node
\* again and answer 500 at once when it is gone; generate only answers 500
RouteCatchRead(r) ==
    /\ At(r, "catch")
    /\ reqs' = IF reqs[r].route = "generate" \/ reqs[r].nodeId \notin DOMAIN dbNodes
               THEN Respond(r, 500)
               ELSE [reqs EXCEPT ![r].pc = "catchWrite",
                                 ![r].currentData = dbNodes[reqs[r].nodeId]]
    /\ UNCHANGED <<dbNodes, generations, beyondGen>>

\* The cleanup reads the body with request.clone().json() after the try block
\* has read it with request.json(): clone() of a request whose body has been
\* read throws a TypeError, the inner catch ignores it, and the route answers
\* 500 without the read and the write below
RouteCatchCloneThrows(r) ==
    /\ At(r, "catch")
    /\ reqs[r].route # "generate"
    /\ reqs' = Respond(r, 500)
    /\ UNCHANGED <<dbNodes, generations, beyondGen>>

\* ... and write the failure status over the data they read, then answer 500
RouteCatchWrite(r) ==
    /\ At(r, "catchWrite")
    /\ dbNodes' = UpdatedNodes(dbNodes, reqs[r].nodeId,
                      [reqs[r].currentData EXCEPT !.status = FailedOf(reqs[r].route)])
    /\ reqs' = Respond(r, 500)
    /\ UNCHANGED <<generations, beyondGen>>

\* The response has been sent: the slot is free again
RouteEnd(r) ==
    /\ At(r, "done")
    /\ reqs' = [q \in InFlight \ {r} |-> reqs[q]]
    /\ UNCHANGED <<dbNodes, generations, beyondGen>>

NoneInFlight == InFlight = {}

\* delete from nodes where id = ..., which the policy "Users can delete nodes in
\* their projects" allows the owner: the rows of generations and of edges that
\* reference the node go with it (ON DELETE CASCADE)
DeleteNode(id) ==
    /\ id \in DOMAIN dbNodes
    /\ dbNodes' = [n \in DOMAIN dbNodes \ {id} |-> dbNodes[n]]
    /\ generations' = SelectSeq(generations, LAMBDA g : g.node_id # id)
    /\ dbEdges' = SelectSeq(dbEdges, LAMBDA e : e.source_id # id /\ e.target_id # id)
    /\ UNCHANGED <<store, resolver, lastRemoved, rfEdges, inserts, reqs, client, prompter, services>>

InitGen ==
    /\ StoreEmpty
    /\ ResolverIdle
    /\ CanvasIdle
    /\ GenTables
    /\ ClientIdle
    /\ PromptIdle
    /\ ServicesIdle

\* One request at a time: a request starts when none is in flight
NextGenSeq ==
    \/ \E route \in Routes, user \in Callers, id \in GenNodeIds \cup {NoId} :
          NoneInFlight /\ RouteStart(1, route, user, id)
    \/ RouteAuth(1)
    \/ RouteLookup(1)
    \/ RouteBegin(1)
    \/ RouteAiAnswers(1)
    \/ RouteAiThrows(1)
    \/ RouteReadVersion(1)
    \/ RouteUpdateNode(1)
    \/ RouteInsertGeneration(1)
    \/ RouteCatchCloneThrows(1)
    \/ RouteCatchRead(1)
    \/ RouteCatchWrite(1)
    \/ RouteEnd(1)
    \/ \E id \in GenNodeIds : DeleteNode(id)

SpecGenSeq == InitGen /\ [][NextGenSeq]_vars

\* Requests overlap: each runs in its own invocation of the handler and the
\* awaits of different requests interleave freely. The requests are the owner's,
\* for nodes that exist, a new request takes the least free slot once the
\* responses that are ready have been sent, and the cleanup of a failed request
\* gets to read the node.
NextGen ==
    \E r \in ReqIds :
        \/ \E route \in Routes, id \in GenNodeIds :
              /\ \A q \in ReqIds \ InFlight : r <= q
              /\ \A q \in InFlight : reqs[q].pc # "done"
              /\ RouteStart(r, route, Owner, id)
        \/ RouteAuth(r)
        \/ RouteLookup(r)
        \/ RouteBegin(r)
        \/ RouteAiAnswers(r)
        \/ RouteAiThrows(r)
        \/ RouteReadVersion(r)
        \/ RouteUpdateNode(r)
        \/ RouteInsertGeneration(r)
        \/ RouteCatchRead(r)
        \/ RouteCatchWrite(r)
        \/ RouteEnd(r)

SpecGen == InitGen /\ [][NextGen]_vars

-----------------------------------------------------------------------------
(* The node components and their generation handlers: SpecClient *)

\* Most rows of table generations at which the editor still starts a generation
MaxClientGenerations == 2

\* The nodes on the canvas: a competitor, a design, a page and a section
ClientNodeIds == {"K1", "D1", "G1", "S1"}

\* Who the session cookie of a fetch stands for: the owner, or nobody once the
\* session has expired
Sessions == {"u1", "anon"}

\* The route the component of a node of this type calls
RouteOf(type) ==
    CASE type = "competitor" -> "analyze"
      [] type = "design"     -> "design-extract"
      [] type = "page"       -> "generate-prd"
      [] type = "section"    -> "generate"

\* The status the handler sets before its fetch
StartedStatus(type) ==
    CASE type = "competitor" -> "analyzing"
      [] type = "design"     -> "extracting"
      [] type = "page"       -> "building"
      [] type = "section"    -> "building"

\* The status the handler's catch block sets
FailedStatus(type) ==
    CASE type = "competitor" -> "error"
      [] type = "design"     -> "error"
      [] type = "page"       -> "planning"
      [] type = "section"    -> "error"

\* What the handler passes to updateNode after an OK response
ResultPatch(type, version) ==
    CASE type = "competitor" -> [status |-> "complete", analysis |-> TRUE]
      [] type = "design"     -> [status |-> "complete", extraction |-> TRUE]
      [] type = "page"       -> [status |-> "complete", prd |-> version]
      [] type = "section"    -> [status |-> "complete", content |-> version]

\* Mutant of Merged: the patch replaces the data, so a result field the patch
\* does not name is lost
Overwritten(data, patch) ==
    [f \in DOMAIN data |-> IF f \in DOMAIN patch THEN patch[f]
                            ELSE IF f \in {"type", "name"} THEN data[f]
                            ELSE IF f \in {"analysis", "extraction"} THEN FALSE
                            ELSE 0]

\* { ...node.data, ...data }
Merged(data, patch) ==
    [f \in DOMAIN data |-> IF f \in DOMAIN patch THEN patch[f] ELSE data[f]]

\* updateNode(id, data): merged into the data of the node with this id; a store
\* without that node stays as it is
updateNode(nd, id, patch) ==
    IF id \in DOMAIN nd THEN [nd EXCEPT ![id] = Merged(nd[id], patch)] ELSE nd

IdleHandler == [busy |-> FALSE, req |-> 0]

\* Is the button that starts the generation rendered with a handler and enabled?
\*   CompetitorNode: Analyze while the status shown is pending or error
\*   DesignNode of part_007: Extract Patterns while the status is pending or error
\*   DesignNode of design-node.tsx: its buttons carry no handler
\*   PageNode: the PRD dialog's Generate / Regenerate unless one is running
\*   SectionNode: Build unless one is running
Offered(id) ==
    LET type == nodeData[id].type
        status == nodeData[id].status
    IN  /\ ~handlers[id].busy
        /\ CASE type = "competitor" -> status \in {"pending", "error"}
             [] type = "design"     -> designNode = "part_007" /\ status \in {"pending", "error"}
             [] type = "page"       -> TRUE
             [] type = "section"    -> TRUE
             [] OTHER               -> FALSE

\* handleAnalyze / handleExtract / handleGeneratePRD / handleBuild up to the
\* await of fetch: the flag is set, the store's node gets the in-progress status
\* and the request is sent
HandlerStarts(id, user) ==
    /\ id \in DOMAIN nodeData
    /\ Offered(id)
    /\ NoneInFlight
    /\ Len(generations) < MaxClientGenerations
    /\ handlers' = [handlers EXCEPT ![id] = [busy |-> TRUE, req |-> 1]]
    /\ nodeData' = updateNode(nodeData, id, [status |-> StartedStatus(nodeData[id].type)])
    /\ reqs' = WithRequest(1, RouteOf(nodeData[id].type), user, id)
    /\ attempt' = [id |-> id, nodeData |-> nodeData[id], dbNode |-> dbNodes[id],
                  generations |-> generations]
    /\ UNCHANGED <<store, resolver, lastRemoved, canvas, dbNodes, generations, designNode, prompter, services>>

\* The handler after the response: an OK response is merged into the store's
\* node with status complete, any other throws into the catch block, which sets
\* the failure status; finally the flag is cleared
HandlerSettles(id) ==
    /\ id \in DOMAIN handlers
    /\ handlers[id].req # 0
    /\ At(handlers[id].req, "done")
    /\ nodeData' = updateNode(nodeData, id,
                       IF reqs[handlers[id].req].status = 200
                       THEN ResultPatch(nodeData[id].type, reqs[handlers[id].req].newVersion)
                       ELSE [status |-> FailedStatus(nodeData[id].type)])
    /\ handlers' = [handlers EXCEPT ![id] = IdleHandler]
    /\ reqs' = [q \in InFlight \ {handlers[id].req} |-> reqs[q]]
    /\ attempt' = <<>>
    /\ UNCHANGED <<store, resolver, lastRemoved, canvas, dbNodes, generations, designNode, prompter, services>>

\* The project page is loaded again: the store's nodes are the rows of table
\* nodes, the components mount afresh; a request under way goes on unheard
reloadPage ==
    /\ nodeData # dbNodes \/ \E id \in DOMAIN handlers : handlers[id] # IdleHandler
    /\ nodeData' = dbNodes
    /\ handlers' = [id \in DOMAIN handlers |-> IdleHandler]
    /\ UNCHANGED <<store, resolver, lastRemoved, canvas, gen, designNode, attempt, prompter, services>>

\* The response to a request nobody awaits any more
ResponseDropped(r) ==
    /\ \A id \in DOMAIN handlers : handlers[id].req # r
    /\ At(r, "done")
    /\ reqs' = [q \in InFlight \ {r} |-> reqs[q]]
    /\ attempt' = <<>>
    /\ UNCHANGED <<store, resolver, lastRemoved, canvas, dbNodes, generations, nodeData,
                   handlers, designNode, prompter, services>>

\* The status a design row can have when the project is opened: pending when
\* new, error when an extraction failed before (the route's catch block)
LoadedDesignStatuses == {"pending", "error"}

\* The project with its four nodes, none generated yet, open in the editor
InitClient ==
    /\ nodes = <<FlowNode("K1"), FlowNode("D1"), FlowNode("G1"), FlowNode("S1")>>
    /\ edges = <<>>
    /\ selectedNodeId = NoId
    /\ selectedNodeIds = <<>>
    /\ ResolverIdle
    /\ CanvasIdle
    /\ \E status \in LoadedDesignStatuses :
           dbNodes = [id \in ClientNodeIds |->
                         IF NodeTypeOf(id) = "design"
                         THEN [NewNodeData(id) EXCEPT !.status = status]
                         ELSE NewNodeData(id)]
    /\ generations = <<>>
    /\ reqs = <<>>
    /\ nodeData = dbNodes
    /\ handlers = [id \in ClientNodeIds |-> IdleHandler]
    /\ designNode \in {"part_007", "design-node.tsx"}
    /\ attempt = <<>>
    /\ PromptIdle
    /\ ServicesIdle

\* One generation at a time
NextClient ==
    \/ \E id \in ClientNodeIds, user \in Sessions : HandlerStarts(id, user)
    \/ RouteAuth(1)
    \/ RouteLookup(1)
    \/ RouteBegin(1)
    \/ RouteAiAnswers(1)
    \/ RouteAiThrows(1)
    \/ RouteReadVersion(1)
    \/ RouteUpdateNode(1)
    \/ RouteInsertGeneration(1)
    \/ RouteCatchCloneThrows(1)
    \/ RouteCatchRead(1)
    \/ RouteCatchWrite(1)
    \/ \E id \in ClientNodeIds : HandlerSettles(id)
    \/ reloadPage
    \/ ResponseDropped(1)

SpecClient == InitClient /\ [][NextClient]_vars

-----------------------------------------------------------------------------
(* The node configuration dialog next to a generation: SpecSave *)

\* The nodes of the project whose dialog is used: a competitor and a page
SavedNodeIds == {"K1", "G1"}

\* The form: a copy of the node's data in the store, taken again whenever that
\* data changes, with the field the user has edited
FormData(id) == [nodeData[id] EXCEPT !.name = "edited"]

\* handleSave: updateNode(nodeId, formData) in the store, then
\* update nodes set data = formData where id = nodeId
handleSave(id) ==
    /\ id \in DOMAIN nodeData
    /\ nodeData[id].name # "edited"
    /\ nodeData' = updateNode(nodeData, id, FormData(id))
    /\ dbNodes' = UpdatedNodes(dbNodes, id, FormData(id))
    /\ UNCHANGED <<store, resolver, lastRemoved, canvas, generations, reqs, handlers,
                   designNode, attempt, prompter, services>>

\* The project open in the editor, nothing generated yet
InitSave ==
    /\ StoreEmpty
    /\ ResolverIdle
    /\ CanvasIdle
    /\ dbNodes = [id \in SavedNodeIds |-> NewNodeData(id)]
    /\ generations = <<>>
    /\ reqs = <<>>
    /\ nodeData = dbNodes
    /\ handlers = [id \in SavedNodeIds |-> IdleHandler]
    /\ designNode = "part_007"
    /\ attempt = <<>>
    /\ PromptIdle
    /\ ServicesIdle

\* The editor's generations with the dialog's save in between
NextSave ==
    \/ NextClient
    \/ \E id \in SavedNodeIds : handleSave(id)

SpecSave == InitSave /\ [][NextSave]_vars

-----------------------------------------------------------------------------
(* The PRD prompt's context projection: buildUserPrompt, SpecPrompt *)

MaxContext == 3

\* The types of NodeData
NodeTypes == {"project", "competitor", "design", "goals", "page", "section", "feature", "prd"}

\* The NodeData a caller can pass: of a competitor with or without its analysis,
\* of a design with or without its extraction, of the other types as they are.
\* Field filled says whether the analysis or extraction is there.
ContextEntries ==
    {[type |-> t, filled |-> f] : t \in {"competitor", "design"}, f \in BOOLEAN}
        \cup {[type |-> t, filled |-> FALSE] : t \in NodeTypes \ {"competitor", "design"}}

\* One pass of the loop's body: the sections the switch appends for the entry,
\* each with the heading it starts with
Projected(entry) ==
    CASE entry.type = "project"    -> <<"Project Information">>
      [] entry.type = "competitor" ->
            IF entry.filled THEN <<"Competitor Analysis">> ELSE <<>>
      [] entry.type = "design"     ->
            IF entry.filled THEN <<"Design Inspiration">> ELSE <<>>
      [] entry.type = "goals"      -> <<"Project Goals">>
      [] entry.type = "section"    -> <<"Section">>
      [] OTHER                        -> <<>>

\* for (const nodeData of context) { switch (nodeData.type) ... }: one entry
buildUserPromptStep ==
    /\ contextPos < Len(context)
    /\ prompt' = prompt \o Projected(context[contextPos + 1])
    /\ contextPos' = contextPos + 1
    /\ UNCHANGED <<context, store, resolver, lastRemoved, canvas, gen, client, services>>

\* buildUserPrompt has gone through the whole of context
PromptBuilt == contextPos = Len(context)

\* buildUserPrompt is called with any context list of at most MaxContext entries
InitPrompt ==
    /\ StoreEmpty
    /\ ResolverIdle
    /\ CanvasIdle
    /\ GenIdle
    /\ ClientIdle
    /\ context \in SeqsUpTo(ContextEntries, MaxContext)
    /\ contextPos = 0
    /\ prompt = <<>>
    /\ ServicesIdle

NextPrompt == buildUserPromptStep

SpecPrompt == InitPrompt /\ [][NextPrompt]_vars

-----------------------------------------------------------------------------
(* The export route, POST (archive) and GET (preview): SpecExport *)

Methods == {"POST", "GET"}

\* The rows of table projects
Projects == {"p1", "p2"}
ProjectOwner(p) == IF p = "p1" THEN "u1" ELSE "u2"

\* What a request names as projectId: a project, an id of no project, nothing
RequestedProjects == Projects \cup {"px", NoId}

\* A POST body is JSON or not; a GET has its projectId in the query string
Bodies == {"json", "malformed"}

\* A request as it arrives
NewExport(method, user, projectId, body) ==
    [pc |-> "auth", method |-> method, user |-> user, projectId |-> projectId,
     body |-> body, status |-> 0, payload |-> "none"]

\* return NextResponse.json({ error }, { status })
Refused(call, code) == [call EXCEPT !.pc = "done", !.status = code]

\* Mutant of AuthChecked: the user is not looked at
AuthUnchecked(call) ==
    [call EXCEPT !.pc = IF call.method = "POST" THEN "parse" ELSE "validate"]

\* if (authError || !user) return 401; POST then reads its body
AuthChecked(call) ==
    IF call.user = "anon"
    THEN Refused(call, 401)
    ELSE [call EXCEPT !.pc = IF call.method = "POST" THEN "parse" ELSE "validate"]

ExportStart(method, user, projectId, body) ==
    /\ exportCall = <<>>
    /\ method = "GET" => body = "json"
    /\ body = "malformed" => projectId = NoId
    /\ exportCall' = NewExport(method, user, projectId, body)
    /\ UNCHANGED <<store, resolver, lastRemoved, canvas, gen, client, prompter, chatRoute, chatClient>>

ExportAuth ==
    /\ exportCall # <<>>
    /\ exportCall.pc = "auth"
    /\ exportCall' = AuthChecked(exportCall)
    /\ UNCHANGED <<store, resolver, lastRemoved, canvas, gen, client, prompter, chatRoute, chatClient>>

\* POST: const body = await request.json(), which throws on a body that is no
\* JSON: control passes to the catch block
ExportParse ==
    /\ exportCall # <<>>
    /\ exportCall.pc = "parse"
    /\ exportCall' = [exportCall EXCEPT !.pc =
                         IF exportCall.body = "malformed" THEN "catch" ELSE "validate"]
    /\ UNCHANGED <<store, resolver, lastRemoved, canvas, gen, client, prompter, chatRoute, chatClient>>

\* if (!projectId) return 400
ExportValidate ==
    /\ exportCall # <<>>
    /\ exportCall.pc = "validate"
    /\ exportCall' = IF exportCall.projectId = NoId
                     THEN Refused(exportCall, 400)
                     ELSE [exportCall EXCEPT !.pc = "project"]
    /\ UNCHANGED <<store, resolver, lastRemoved, canvas, gen, client, prompter, chatRoute, chatClient>>

\* select from projects where id = projectId and user_id = user.id: 404 when
\* there is no such row
ExportProject ==
    /\ exportCall # <<>>
    /\ exportCall.pc = "project"
    /\ exportCall' = IF /\ exportCall.projectId \in Projects
                        /\ ProjectOwner(exportCall.projectId) = exportCall.user
                     THEN [exportCall EXCEPT !.pc = "nodes"]
                     ELSE Refused(exportCall, 404)
    /\ UNCHANGED <<store, resolver, lastRemoved, canvas, gen, client, prompter, chatRoute, chatClient>>

\* select the project's nodes: 500 when the query fails
ExportNodes(failed) ==
    /\ exportCall # <<>>
    /\ exportCall.pc = "nodes"
    /\ exportCall' = IF failed
                     THEN Refused(exportCall, 500)
                     ELSE [exportCall EXCEPT !.pc = "build"]
    /\ UNCHANGED <<store, resolver, lastRemoved, canvas, gen, client, prompter, chatRoute, chatClient>>

\* POST: the files are generated and zipped and the archive is returned; GET:
\* the preview is returned
ExportBuild ==
    /\ exportCall # <<>>
    /\ exportCall.pc = "build"
    /\ exportCall' = [exportCall EXCEPT
                         !.pc = "done", !.status = 200,
                         !.payload = IF exportCall.method = "POST" THEN "archive" ELSE "preview"]
    /\ UNCHANGED <<store, resolver, lastRemoved, canvas, gen, client, prompter, chatRoute, chatClient>>

\* generateExportFiles or createZipArchive throws
ExportBuildThrows ==
    /\ exportCall # <<>>
    /\ exportCall.pc = "build"
    /\ exportCall' = [exportCall EXCEPT !.pc = "catch"]
    /\ UNCHANGED <<store, resolver, lastRemoved, canvas, gen, client, prompter, chatRoute, chatClient>>

\* catch (error): 500
ExportCatch ==
    /\ exportCall # <<>>
    /\ exportCall.pc = "catch"
    /\ exportCall' = Refused(exportCall, 500)
    /\ UNCHANGED <<store, resolver, lastRemoved, canvas, gen, client, prompter, chatRoute, chatClient>>

\* The response has been sent
ExportEnd ==
    /\ exportCall # <<>>
    /\ exportCall.pc = "done"
    /\ exportCall' = <<>>
    /\ UNCHANGED <<store, resolver, lastRemoved, canvas, gen, client, prompter, chatRoute, chatClient>>

InitExport ==
    /\ StoreEmpty
    /\ ResolverIdle
    /\ CanvasIdle
    /\ GenIdle
    /\ ClientIdle
    /\ PromptIdle
    /\ ServicesIdle

NextExport ==
    \/ \E method \in Methods, user \in Callers, projectId \in RequestedProjects, body \in Bodies :
          ExportStart(method, user, projectId, body)
    \/ ExportAuth
    \/ ExportParse
    \/ ExportValidate
    \/ ExportProject
    \/ \E failed \in BOOLEAN : ExportNodes(failed)
    \/ ExportBuild
    \/ ExportBuildThrows
    \/ ExportCatch
    \/ ExportEnd

SpecExport == InitExport /\ [][NextExport]_vars

-----------------------------------------------------------------------------
(* The chat route and table messages: SpecApi, SpecHistory *)

\* .limit(10)
HistoryLimit == 10

\* Most exchanges (a user's message and its reply) table messages holds when the
\* route is called
MaxExchanges == 6

\* Most generation records, and most chat exchanges, persisted when the routes
\* side by side take another request
MaxApiRows == 1

\* A row of table messages
MessageRow(p, role, at) == [project_id |-> p, role |-> role, created_at |-> at]

\* The two rows of one insert: created_at defaults to NOW(), the same for both
Exchange(p, at) == <<MessageRow(p, "user", at), MessageRow(p, "assistant", at)>>

\* The message of the request, not persisted yet
CurrentMessage(p) == MessageRow(p, "user", 0)

\* where project_id = p
MessagesOf(rows, p) == SelectSeq(rows, LAMBDA m : m.project_id = p)

\* order by created_at ascending leaves the order of rows with the same
\* created_at open: the two rows of each exchange in sw come out swapped
OrderedByCreatedAt(ms, sw) ==
    [k \in 1..Len(ms) |->
        IF (k + 1) \div 2 \in sw THEN ms[IF k % 2 = 1 THEN k + 1 ELSE k - 1] ELSE ms[k]]

\* .eq("project_id", projectId).order("created_at", { ascending: true }).limit(10):
\* the first ten rows of the project in ascending order of created_at, in each
\* order the database may return them
RecentMessages(rows, p) ==
    {SubSeq(OrderedByCreatedAt(MessagesOf(rows, p), sw), 1,
            Min({HistoryLimit, Len(MessagesOf(rows, p))})) :
        sw \in SUBSET (1..(Len(MessagesOf(rows, p)) \div 2))}

\* A request as it arrives; message says whether the body carries a message
NewChat(user, projectId, message) ==
    [pc |-> "auth", user |-> user, projectId |-> projectId, message |-> message,
     messages |-> <<>>, status |-> 0]

ChatAt(pc) == chatCall # <<>> /\ chatCall.pc = pc

ChatAnswered(call, code) == [call EXCEPT !.pc = "done", !.status = code]

ChatStart(user, projectId, message) ==
    /\ chatCall = <<>>
    /\ chatCall' = NewChat(user, projectId, message)
    /\ UNCHANGED <<store, resolver, lastRemoved, canvas, gen, client, prompter, exporter,
                   dbMessages, chatClient>>

\* if (authError || !user) return 401
ChatAuth ==
    /\ ChatAt("auth")
    /\ chatCall' = IF chatCall.user = "anon"
                   THEN ChatAnswered(chatCall, 401)
                   ELSE [chatCall EXCEPT !.pc = "validate"]
    /\ UNCHANGED <<store, resolver, lastRemoved, canvas, gen, client, prompter, exporter,
                   dbMessages, chatClient>>

\* if (!message || !projectId) return 400
ChatValidate ==
    /\ ChatAt("validate")
    /\ chatCall' = IF ~chatCall.message \/ chatCall.projectId = NoId
                   THEN ChatAnswered(chatCall, 400)
                   ELSE [chatCall EXCEPT !.pc = "project"]
    /\ UNCHANGED <<store, resolver, lastRemoved, canvas, gen, client, prompter, exporter,
                   dbMessages, chatClient>>

\* Mutant of OwnsProject: the row is selected by id alone
ProjectExists(user, p) == p \in Projects

\* select id from projects where id = projectId and user_id = user.id
OwnsProject(user, p) == p \in Projects /\ ProjectOwner(p) = user

\* Verify user owns the project: 404 otherwise
ChatProject ==
    /\ ChatAt("project")
    /\ chatCall' = IF OwnsProject(chatCall.user, chatCall.projectId)
                   THEN [chatCall EXCEPT !.pc = "history"]
                   ELSE ChatAnswered(chatCall, 404)
    /\ UNCHANGED <<store, resolver, lastRemoved, canvas, gen, client, prompter, exporter,
                   dbMessages, chatClient>>

\* Get recent messages for conversation history; the messages array for the
\* model is this history followed by the current message
ChatHistory ==
    /\ ChatAt("history")
    /\ \E recentMessages \in RecentMessages(dbMessages, chatCall.projectId) :
          chatCall' = [chatCall EXCEPT
                          !.pc = "ai",
                          !.messages = Append(recentMessages,
                                              CurrentMessage(chatCall.projectId))]
    /\ UNCHANGED <<store, resolver, lastRemoved, canvas, gen, client, prompter, exporter,
                   dbMessages, chatClient>>

\* anthropic.messages.create answers
ChatAiAnswers ==
    /\ ChatAt("ai")
    /\ chatCall' = [chatCall EXCEPT !.pc = "insert"]
    /\ UNCHANGED <<store, resolver, lastRemoved, canvas, gen, client, prompter, exporter,
                   dbMessages, chatClient>>

\* anthropic.messages.create throws: catch, 500
ChatAiThrows ==
    /\ ChatAt("ai")
    /\ chatCall' = ChatAnswered(chatCall, 500)
    /\ UNCHANGED <<store, resolver, lastRemoved, canvas, gen, client, prompter, exporter,
                   dbMessages, chatClient>>

\* Save messages to database: the user's message and the reply, then 200
ChatInsert ==
    /\ ChatAt("insert")
    /\ dbMessages' = dbMessages \o Exchange(chatCall.projectId, Len(dbMessages) \div 2 + 1)
    /\ chatCall' = ChatAnswered(chatCall, 200)
    /\ UNCHANGED <<store, resolver, lastRemoved, canvas, gen, client, prompter, exporter,
                   chatClient>>

\* The response has been sent
ChatEnd ==
    /\ ChatAt("done")
    /\ chatCall' = <<>>
    /\ UNCHANGED <<store, resolver, lastRemoved, canvas, gen, client, prompter, exporter,
                   dbMessages, chatClient>>

\* The routes side by side, one request at a time: the generation routes on
\* the nodes of project p1, and the chat route
NextApi ==
    \/ \E route \in Routes, user \in Callers, id \in GenNodeIds \cup {NoId} :
          /\ NoneInFlight
          /\ chatCall = <<>>
          /\ Len(generations) <= MaxApiRows
          /\ RouteStart(1, route, user, id)
    \/ RouteAuth(1)
    \/ RouteLookup(1)
    \/ RouteBegin(1)
    \/ RouteAiAnswers(1)
    \/ RouteAiThrows(1)
    \/ RouteReadVersion(1)
    \/ RouteUpdateNode(1)
    \/ RouteInsertGeneration(1)
    \/ RouteCatchCloneThrows(1)
    \/ RouteCatchRead(1)
    \/ RouteCatchWrite(1)
    \/ RouteEnd(1)
    \/ \E user \in Callers, projectId \in {"p1", "px", NoId}, message \in BOOLEAN :
          /\ NoneInFlight
          /\ Len(dbMessages) <= 2 * MaxApiRows
          /\ ChatStart(user, projectId, message)
    \/ ChatAuth
    \/ ChatValidate
    \/ ChatProject
    \/ ChatHistory
    \/ ChatAiAnswers
    \/ ChatAiThrows
    \/ ChatInsert
    \/ ChatEnd

SpecApi == InitGen /\ [][NextApi]_vars

\* The tables messages the route can find: the exchanges of two projects in the
\* order they were inserted
MessageTables ==
    {[k \in 1..(2 * Len(ps)) |-> Exchange(ps[(k + 1) \div 2], (k + 1) \div 2)[2 - (k % 2)]] :
        ps \in SeqsUpTo(Projects, MaxExchanges)}

InitHistory ==
    /\ StoreEmpty
    /\ ResolverIdle
    /\ CanvasIdle
    /\ GenIdle
    /\ ClientIdle
    /\ PromptIdle
    /\ exportCall = <<>>
    /\ chatCall = <<>>
    /\ dbMessages \in MessageTables
    /\ chatStore = EmptyChatStore
    /\ chatPanel = NoId
    /\ chatSend = <<>>

\* The owner of p1 sends a message for p1 to the route
NextHistory ==
    \/ Len(dbMessages) <= 2 * MaxExchanges /\ ChatStart("u1", "p1", TRUE)
    \/ ChatAuth
    \/ ChatValidate
    \/ ChatProject
    \/ ChatHistory
    \/ ChatAiAnswers
    \/ ChatAiThrows
    \/ ChatInsert
    \/ ChatEnd

SpecHistory == InitHistory /\ [][NextHistory]_vars

-----------------------------------------------------------------------------
(* The chat panel and the chat store: SpecChat *)

\* Most sends the panel numbers
MaxSends == 2

\* A message of the chat store: the project the panel gave it, the role, the
\* send it belongs to (0 for a message loaded with the page) and whether it is
\* the error notice
ChatMessage(p, role, send, notice) ==
    [project_id |-> p, role |-> role, send |-> send, notice |-> notice]

\* The messages the project page loads: none, or an earlier exchange
InitialMessages(p) ==
    {<<>>, <<ChatMessage(p, "user", 0, FALSE), ChatMessage(p, "assistant", 0, FALSE)>>}

\* The nodes the project page loads
InitialNodes(p) == IF p = "p1" THEN <<FlowNode("P1"), FlowNode("D1")>> ELSE <<FlowNode("G1")>>

\* addMessage: the message is appended to the store's list
addMessage(st, message) == [st EXCEPT !.messages = Append(st.messages, message)]

\* The sends whose fetch has not come back
Sending == DOMAIN chatSend

\* The number of the next send
NextSend ==
    1 + Max({0} \cup Sending \cup {chatStore.messages[k].send : k \in 1..Len(chatStore.messages)})

\* ProjectEditor mounts: the stores take the project's nodes, edges and messages
openProject(p, initialMessages) ==
    /\ chatPanel = NoId
    /\ chatPanel' = p
    /\ nodes' = InitialNodes(p)
    /\ edges' = <<>>
    /\ chatStore' = [chatStore EXCEPT !.messages = initialMessages]
    /\ UNCHANGED <<selectedNodeId, selectedNodeIds, resolver, lastRemoved, canvas, gen, client,
                   prompter, exporter, chatRoute, chatSend>>

\* ProjectEditor unmounts: the canvas store is reset, the messages are cleared
closeProject ==
    /\ chatPanel # NoId
    /\ chatPanel' = NoId
    /\ nodes' = <<>>
    /\ edges' = <<>>
    /\ selectedNodeId' = NoId
    /\ selectedNodeIds' = <<>>
    /\ chatStore' = [chatStore EXCEPT !.messages = <<>>]
    /\ UNCHANGED <<resolver, lastRemoved, canvas, gen, client, prompter, exporter, chatRoute,
                   chatSend>>

\* Mutant of CanSend: isLoading is not looked at
CanSendWhileLoading(input) == input # ""

\* if (!input.trim() || isLoading) return
CanSend(input) == input # "" /\ ~chatStore.isLoading

\* handleSend up to the await of fetch: the user's message is added, isLoading
\* is set
handleSend(input) ==
    /\ chatPanel # NoId
    /\ CanSend(input)
    /\ NextSend <= MaxSends
    /\ chatStore' = [addMessage(chatStore, ChatMessage(chatPanel, "user", NextSend, FALSE))
                        EXCEPT !.isLoading = TRUE]
    /\ chatSend' = [n \in Sending \cup {NextSend} |->
                       IF n = NextSend THEN chatPanel ELSE chatSend[n]]
    /\ UNCHANGED <<store, resolver, lastRemoved, canvas, gen, client, prompter, exporter,
                   chatRoute, chatPanel>>

\* handleSend after the fetch: the reply is added, or in the catch block the
\* error notice, with the projectId the panel was rendered with; finally
\* isLoading is cleared
handleSendSettles(n, ok) ==
    /\ n \in Sending
    /\ chatStore' = [addMessage(chatStore, ChatMessage(chatSend[n], "assistant", n, ~ok))
                        EXCEPT !.isLoading = FALSE]
    /\ chatSend' = [m \in Sending \ {n} |-> chatSend[m]]
    /\ UNCHANGED <<store, resolver, lastRemoved, canvas, gen, client, prompter, exporter,
                   chatRoute, chatPanel>>

NextChat ==
    \/ \E p \in Projects : \E initialMessages \in InitialMessages(p) :
          openProject(p, initialMessages)
    \/ closeProject
    \/ \E input \in {"", "text"} : handleSend(input)
    \/ \E n \in 1..MaxSends, ok \in BOOLEAN : handleSendSettles(n, ok)

\* No project is open at first: the stores are in their initial state
SpecChat == InitStore /\ [][NextChat]_vars

-----------------------------------------------------------------------------
(* The selection of the canvas store: SpecSelect *)

\* setSelectedNode: (id) => set({ selectedNodeId: id, selectedNodeIds: id ? [id] : [] })
setSelectedNode(id) ==
    /\ selectedNodeId' = id
    /\ selectedNodeIds' = IF id # NoId THEN <<id>> ELSE <<>>
    /\ UNCHANGED <<nodes, edges, lastRemoved, beyondStore>>

\* setSelectedNodes: (ids) => set({ selectedNodeIds: ids,
\* selectedNodeId: ids.length === 1 ? ids[0] : null })
setSelectedNodes(ids) ==
    /\ selectedNodeIds' = ids
    /\ selectedNodeId' = IF Len(ids) = 1 THEN ids[1] ELSE NoId
    /\ UNCHANGED <<nodes, edges, lastRemoved, beyondStore>>

\* The selection React Flow reports names nodes of the canvas, each once
NextSelect ==
    \/ \E id \in NodeIdsOf(nodes) \cup {NoId} : setSelectedNode(id)
    \/ \E ids \in Perms(NodeIdsOf(nodes)) : setSelectedNodes(ids)
    \/ \E id \in NodeIds : addNode(id)
    \/ \E id \in NodeIdsOf(nodes) : removeNode(id)

SpecSelect == InitStore /\ [][NextSelect]_vars

-----------------------------------------------------------------------------
(* Reference notions the claims about the resolver are stated with *)

EdgeSet(es) == Range(es)

SourcesIn(E, S) == {e.source : e \in {x \in E : x.target \in S}}

DirectSources(es, S) == SourcesIn(EdgeSet(es), S)

RECURSIVE BackClosure(_, _)
BackClosure(E, S) ==
    LET T == S \cup SourcesIn(E, S)
    IN  IF T = S THEN S ELSE BackClosure(E, T)

\* The ids from which t is reachable by following one or more edges of the set E
AncestorsIn(E, t) == BackClosure(E, SourcesIn(E, {t}))

\* The ids from which t is reachable by following one or more edges source -> target
Ancestors(es, t) == AncestorsIn(EdgeSet(es), t)

\* The ids from which t is reachable on a path that does not pass through d
AncestorsAvoiding(es, t, d) ==
    AncestorsIn({e \in EdgeSet(es) : e.source # d /\ e.target # d}, t)

HasEdge(es, a, b) == \E e \in EdgeSet(es) : e.source = a /\ e.target = b

\* Least number of edges on a path from id to t (0 for t itself); id reaches t
RECURSIVE DistFrom(_, _, _, _)
DistFrom(es, S, id, d) ==
    IF id \in S THEN d ELSE DistFrom(es, S \cup DirectSources(es, S), id, d + 1)

Dist(es, t, id) == DistFrom(es, {t}, id, 0)

NoDuplicates(s) == \A i, j \in 1..Len(s) : s[i] = s[j] => i = j

Count(s, x) == Cardinality({k \in 1..Len(s) : s[k] = x})

\* The store's node with this id
NodeOf(ns, id) == CHOOSE n \in Range(ns) : n.id = id

\* The entries of s keep the order their nodes have in the node list ns
InListOrder(ns, s) ==
    \A i, j \in 1..Len(s) :
        i < j => \E p, q \in 1..Len(ns) : p < q /\ ns[p].data = s[i] /\ ns[q].data = s[j]

\* The entries of a result other than the target's own
AncestorEntries(s, t) == SelectSeq(s, LAMBDA d : d.name # t)

TargetInStore == rtarget \in NodeIdsOf(nodes)

\* Some node on a backward path from t lies on a cycle
CycleReachable(es, t) == \E a \in {t} \cup Ancestors(es, t) : a \in Ancestors(es, a)

\* The same edges with those at positions i and j exchanged. Every edge list is
\* an input state, so a result no exchange changes is the same in every order.
SwapEdges(es, i, j) == [es EXCEPT ![i] = es[j], ![j] = es[i]]

\* Every order of the same nodes
NodeOrders(ns) ==
    {[k \in 1..Len(ns) |-> ns[p[k]]] :
        p \in {q \in [1..Len(ns) -> 1..Len(ns)] : \A i, j \in 1..Len(ns) : q[i] = q[j] => i = j}}

\* Termination measure of the walk: what is left to do, as a natural number
WalkMeasure(w, es) ==
    LET L == Len(es)
        RECURSIVE Left(_)
        Left(k) == IF k = 0 THEN 0 ELSE (L + 2 - w.stack[k].i) + Left(k - 1)
    IN  Cardinality(NodeIds \ w.visited) * (L + 2) + Left(Len(w.stack))

-----------------------------------------------------------------------------
(* Claims about the resolver, under SpecResolve *)

\* C1: for a target t present in the store, the sequence getNodeContext(t)
\* returns holds no node's data twice and never holds the data of t itself.
C1_NoDupNoTarget ==
    (rpc = "done" /\ TargetInStore) =>
        /\ NoDuplicates(result)
        /\ NodeOf(nodes, rtarget).data \notin Range(result)

\* C2: the nodes returned for t are exactly the nodes other than t from which t
\* is reachable over one or more edges.
C2_ExactlyAncestors ==
    (rpc = "done" /\ TargetInStore) =>
        Range(result) =
            {n.data : n \in {m \in Range(nodes) :
                                m.id # rtarget /\ m.id \in Ancestors(edges, rtarget)}}

\* C3: on a graph with a cycle reachable backward from the target the walk
\* terminates (every step lowers a natural-number measure, and a started walk
\* leads to its return), no entry of the result is repeated and every ancestor
\* of the target appears in it.
C3_CycleTerminates ==
    /\ [](rpc = "walking" => WalkMeasure(walk, edges) >= 0)
    /\ [][ResolveStep => WalkMeasure(walk', edges') < WalkMeasure(walk, edges)]_vars
    /\ [](rpc = "done" /\ CycleReachable(edges, rtarget) =>
            /\ NoDuplicates(result)
            /\ \A n \in Range(nodes) :
                 (n.id \in Ancestors(edges, rtarget) \ {rtarget}) => Count(result, n.data) = 1)
    /\ ((rpc = "walking" /\ CycleReachable(edges, rtarget)) ~> (rpc = "done"))

\* C3 witness: the call has returned for a target G fed by the cycle A -> B -> A,
\* G outside the cycle, and both A and B are in the result.
C3_Witness ==
    /\ rpc = "done"
    /\ TargetInStore
    /\ \E a, b \in NodeIdsOf(nodes) \ {rtarget} :
         /\ a # b
         /\ a \in Ancestors(edges, b) /\ b \in Ancestors(edges, a)
         /\ a \in Ancestors(edges, rtarget)
         /\ NodeOf(nodes, a).data \in Range(result)
         /\ NodeOf(nodes, b).data \in Range(result)

\* C4 (as claimed): the result is in traversal order from the target, nearest
\* first, and is the same on every store holding the same nodes in another order.
C4_TraversalOrder ==
    (rpc = "done" /\ TargetInStore) =>
        /\ \A i, j \in 1..Len(AncestorEntries(result, rtarget)) :
             i < j => Dist(edges, rtarget, AncestorEntries(result, rtarget)[i].name)
                        <= Dist(edges, rtarget, AncestorEntries(result, rtarget)[j].name)
        /\ \A ns \in NodeOrders(nodes) :
             AncestorEntries(getNodeContext(ns, edges, rtarget), rtarget)
                 = AncestorEntries(result, rtarget)

\* C4 (amended): the result is in the order of the store's node list (not in
\* traversal order) and is determined by the node list and the set of edges: it
\* lists, once each and in store order, the nodes that are the target or reach it,
\* however the edges are ordered.
C4_StoreOrder ==
    rpc = "done" =>
        /\ InListOrder(nodes, result)
        /\ NoDuplicates(result)
        /\ Range(result) =
              {n.data : n \in {m \in Range(nodes) :
                                  m.id \in {rtarget} \cup Ancestors(edges, rtarget)}}
        /\ \A i, j \in 1..Len(edges) :
              i < j => getNodeContext(nodes, SwapEdges(edges, i, j), rtarget) = result

\* C4 witness: the chain P1 -> D1 -> G1 in a store listing P1, D1, G1; resolving
\* G1 has returned P1 before D1.
C4_Witness ==
    /\ rpc = "done"
    /\ rtarget = "G1"
    /\ nodes = <<FlowNode("P1"), FlowNode("D1"), FlowNode("G1")>>
    /\ {<<e.source, e.target>> : e \in EdgeSet(edges)} = {<<"P1", "D1">>, <<"D1", "G1">>}
    /\ result = <<DataOf("P1"), DataOf("D1"), DataOf("G1")>>

\* C5 (as claimed): resolving a target id that no node of the store carries
\* fails instead of returning a result.
C5_MissingTargetFails ==
    rpc = "done" => TargetInStore

\* C5 (amended): resolving a target id that no node of the store carries returns
\* without an error: the data of the store's nodes from which that id is
\* reachable, the empty sequence when no edge targets it.
C5_MissingTargetReturns ==
    (rpc = "done" /\ ~TargetInStore) =>
        /\ Range(result) = {n.data : n \in {m \in Range(nodes) : m.id \in Ancestors(edges, rtarget)}}
        /\ NoDuplicates(result)
        /\ (DirectSources(edges, {rtarget}) = {} => result = <<>>)

\* C5 witness: the call has returned two entries for a target that is not in the store.
C5_Witness ==
    /\ rpc = "done"
    /\ ~TargetInStore
    /\ Len(result) = 2

-----------------------------------------------------------------------------
(* Claims about the store's operations, under SpecStore *)

\* C6: after removeNode(D) no edge of the store has D as its source or target,
\* D is no node of the store, and resolving any remaining node G yields neither
\* D nor any P whose every path to G ran through D.
C6_RemoveCascade ==
    lastRemoved.id # NoId =>
        LET D == lastRemoved.id
        IN  /\ \A e \in EdgeSet(edges) : e.source # D /\ e.target # D
            /\ D \notin NodeIdsOf(nodes)
            /\ \A G \in NodeIdsOf(nodes) :
                 LET ctx == getNodeContext(nodes, edges, G)
                 IN  /\ DataOf(D) \notin Range(ctx)
                     /\ \A P \in NodeIds \ {G} :
                          P \notin AncestorsAvoiding(lastRemoved.edges, G, D)
                              => DataOf(P) \notin Range(ctx)

\* C6 witness: D was removed from a store holding P, D and G with edges P -> D
\* and D -> G and no edge P -> G; resolving G no longer yields P.
C6_Witness ==
    /\ lastRemoved.id # NoId
    /\ \E P, G \in NodeIdsOf(nodes) :
         /\ P # G
         /\ lastRemoved.id \in NodeIdsOf(lastRemoved.nodes)
         /\ HasEdge(lastRemoved.edges, P, lastRemoved.id)
         /\ HasEdge(lastRemoved.edges, lastRemoved.id, G)
         /\ DataOf(P) \in Range(getNodeContext(lastRemoved.nodes, lastRemoved.edges, G))
         /\ DataOf(P) \notin Range(getNodeContext(nodes, edges, G))
         /\ DataOf(lastRemoved.id) \notin Range(getNodeContext(nodes, edges, G))

\* C7: in every state the store reaches, the source and the target of every edge
\* are ids of nodes of the store.
C7_EdgesReferToNodes ==
    \A e \in EdgeSet(edges) : e.source \in NodeIdsOf(nodes) /\ e.target \in NodeIdsOf(nodes)

-----------------------------------------------------------------------------
(* Claims about connecting nodes, under SpecCanvas *)

\* The (source, target) pairs of a list of FlowEdges, in order
PairsOf(es) == [k \in 1..Len(es) |-> <<es[k].source, es[k].target>>]

\* The (source_id, target_id) pairs of the rows of table edges, in order
RowPairsOf(rows) == [k \in 1..Len(rows) |-> <<rows[k].source_id, rows[k].target_id>>]

\* C8: in every reachable state the store's edges, the edges the canvas shows
\* and the rows of table edges each hold at most one edge per ordered
\* (source, target) pair.
C8_OneEdgePerPair ==
    /\ NoDuplicates(PairsOf(edges))
    /\ NoDuplicates(PairsOf(rfEdges))
    /\ NoDuplicates(RowPairsOf(dbEdges))

\* C9: no reachable state holds an edge from a node to itself, in the store's
\* edges, in the edges the canvas shows or in table edges.
C9_NoSelfLoops ==
    /\ \A k \in 1..Len(edges) : edges[k].source # edges[k].target
    /\ \A k \in 1..Len(rfEdges) : rfEdges[k].source # rfEdges[k].target
    /\ \A k \in 1..Len(dbEdges) : dbEdges[k].source_id # dbEdges[k].target_id

-----------------------------------------------------------------------------
(* Claims about the generation routes, under SpecGenSeq *)

\* The rows of generations before the k-th, in insertion order
EarlierRows(gs, k) == SubSeq(gs, 1, k - 1)

\* C10: every row of generations carries version 1 + the largest version among
\* the rows that existed for its node and kind when it was inserted, and 1 when
\* there were none, whichever route inserted it (generate-prd, generate,
\* analyze, design-extract).
C10_VersionIsMaxPlusOne ==
    \A k \in 1..Len(generations) :
        generations[k].version =
            NextVersion(EarlierRows(generations, k), generations[k].node_id,
                        generations[k].type)

-----------------------------------------------------------------------------
(* Claims about overlapping requests to the generation routes, under SpecGen *)

\* C11: no two rows of generations that generate or generate-prd inserted (type
\* code or prd) carry the same version for the same node and type, however the
\* requests interleave.
C11_VersionsDistinct ==
    \A i, j \in 1..Len(generations) :
        /\ i < j
        /\ generations[i].type \in {"prd", "code"}
        /\ generations[i].node_id = generations[j].node_id
        /\ generations[i].type = generations[j].type
        => generations[i].version < generations[j].version

-----------------------------------------------------------------------------
(* Claims about the rows of generations, under SpecGenSeq *)

\* The row the request at its insert puts into generations
RowOf(req) == [node_id |-> req.nodeId, type |-> KindOf(req.route), version |-> InsertedVersion(req)]

\* The requests answered 200
Succeeded == {r \in InFlight : reqs[r].pc = "done" /\ reqs[r].status = 200}

\* C12: every request a route answers 200 has added one row to generations, and
\* no step changes or removes a row that exists: every step leaves each row at
\* its place with its content.
C12_AppendOnly ==
    /\ [](\A r \in Succeeded : reqs[r].saved)
    /\ [][\A k \in 1..Len(generations) :
            k <= Len(generations') /\ generations'[k] = generations[k]]_vars

\* C12 as amended: a step leaves generations alone, or appends the one row of a
\* request at its insert, or removes exactly the rows of a node deleted in that
\* step and keeps the others in order; and every request answered 200 has added
\* its row unless its node was deleted.
C12_AppendOnlyUntilNodeDeleted ==
    /\ [](\A r \in Succeeded : reqs[r].saved \/ reqs[r].nodeId \notin DOMAIN dbNodes)
    /\ [][\/ generations' = generations
          \/ \E r \in InFlight :
                /\ reqs[r].pc = "insert"
                /\ generations' = Append(generations, RowOf(reqs[r]))
          \/ \E id \in DOMAIN dbNodes \ DOMAIN dbNodes' :
                generations' = SelectSeq(generations, LAMBDA g : g.node_id # id)]_vars

\* C12 witness: a request was answered 200 and saved its row while an earlier
\* row is still in the table and a node has been deleted.
C12_Witness ==
    /\ \E r \in Succeeded : reqs[r].saved
    /\ Len(generations) >= 2
    /\ DOMAIN dbNodes # GenNodeIds

-----------------------------------------------------------------------------
(* Claims about the lifecycle of a node's status, under SpecClient *)

InProgressStatuses == {"analyzing", "extracting", "building"}

IdleStatuses == {"pending", "draft", "planning"}

\* The result fields of a node's data
ResultsOf(data) ==
    [analysis |-> data.analysis, extraction |-> data.extraction,
     prd |-> data.prd, content |-> data.content]

\* Does the step from data before to data after write a result or the status
\* complete?
Completes(before, after) ==
    \/ ResultsOf(after) # ResultsOf(before)
    \/ after.status = "complete" /\ before.status # "complete"

\* C13: a step that writes a result or the status complete to a node, in the
\* store or in table nodes, starts from that node's in-progress status there;
\* on a node whose status is pending, draft or planning nothing is completed.
C13_CompleteOnlyAfterInProgress ==
    [][/\ \A id \in DOMAIN dbNodes \cap DOMAIN dbNodes' :
            Completes(dbNodes[id], dbNodes'[id]) => dbNodes[id].status \in InProgressStatuses
       /\ \A id \in DOMAIN nodeData \cap DOMAIN nodeData' :
            Completes(nodeData[id], nodeData'[id]) => nodeData[id].status \in InProgressStatuses
      ]_vars

\* ---------------------------------------------------------------------------
\* Regenerating and retrying from the node components
\* ---------------------------------------------------------------------------

GeneratingTypes == {"competitor", "design", "page", "section"}

\* C14: for every variant that supports generation, a node whose status is
\* complete can start a new generation: in every reachable state where the
\* status shown is complete, the node's begin-generation action is offered
C14_CompleteCanRegenerate ==
    \A id \in DOMAIN nodeData :
        (nodeData[id].type \in GeneratingTypes /\ nodeData[id].status = "complete")
            => Offered(id)

\* C15: a design node whose status is error is offered the Extract action, and
\* running it moves the node to extracting
C15_ErrorCanRetry ==
    \A id \in DOMAIN nodeData :
        (nodeData[id].type = "design" /\ nodeData[id].status = "error" /\ ~handlers[id].busy)
            => Offered(id)

\* ---------------------------------------------------------------------------
\* Failed generations
\* ---------------------------------------------------------------------------

\* The handler of node id takes the response of its request off in this step
Settling(id) ==
    /\ handlers[id].req \in InFlight
    /\ handlers[id].req \notin DOMAIN reqs'

\* The route's catch block answers request r in this step
CatchAnswers(r) ==
    /\ reqs[r].pc \in {"catch", "catchWrite"}
    /\ r \in DOMAIN reqs'
    /\ reqs'[r].pc = "done"

\* C16: whenever a generation run fails, the node's status moves to error,
\* for competitor, design, section and page nodes alike, in the client store
\* (the handler that receives a non-OK response) and in the persisted node
\* (the route whose AI call threw)
C16_FailureSetsError ==
    [][ /\ \A id \in DOMAIN handlers :
              (Settling(id) /\ reqs[handlers[id].req].status # 200)
                  => nodeData'[id].status = "error"
        /\ \A r \in InFlight :
              (CatchAnswers(r) /\ reqs[r].nodeId \in DOMAIN dbNodes)
                  => dbNodes'[reqs[r].nodeId].status = "error"
      ]_vars

\* The request r is taken off in this step with a response that is not OK
FailedRun(r) ==
    /\ r \in InFlight
    /\ r \notin DOMAIN reqs'
    /\ reqs[r].status # 200

\* C17: a failed generation leaves the last good result untouched: when the
\* failed run is over, the result fields of the node (analysis, extraction,
\* prd, content) in the persisted node and, where the handler still awaits the
\* response, in the client store, and the generation records are what they were
\* before the attempt
C17_FailureKeepsResults ==
    [][ \A r \in InFlight :
          FailedRun(r) =>
              LET id == reqs[r].nodeId
              IN  /\ attempt.id = id
                  /\ generations' = attempt.generations
                  /\ ResultsOf(dbNodes'[id]) = ResultsOf(attempt.dbNode)
                  /\ handlers[id].req = r =>
                        ResultsOf(nodeData'[id]) = ResultsOf(attempt.nodeData)
      ]_vars

\* A regenerate attempt on a node that carries a result has failed
C17_Witness ==
    \E r \in InFlight :
        /\ At(r, "done")
        /\ reqs[r].status = 500
        /\ handlers[reqs[r].nodeId].req = r
        /\ ResultsOf(attempt.nodeData) # ResultsOf(NewNodeData(attempt.id))
        /\ ResultsOf(attempt.dbNode) # ResultsOf(NewNodeData(attempt.id))
        /\ attempt.generations # <<>>

\* ---------------------------------------------------------------------------
\* Routes and node variants
\* ---------------------------------------------------------------------------

\* The variant each route generates for
VariantOf(route) ==
    CASE route = "analyze"        -> "competitor"
      [] route = "design-extract" -> "design"
      [] route = "generate-prd"   -> "page"
      [] route = "generate"       -> "section"

\* Request r is for a node of a variant its route does not generate for
Unsupported(r) ==
    /\ reqs[r].nodeId \in DOMAIN dbNodes
    /\ dbNodes[reqs[r].nodeId].type # VariantOf(reqs[r].route)

\* C18: a generation started on a node whose variant does not support it is
\* rejected with no state change: no step of such a request changes a node's
\* status or data or inserts a generation record
C18_UnsupportedVariantRejected ==
    [][ \A r \in InFlight :
          (Unsupported(r) /\ r \in DOMAIN reqs' /\ reqs'[r] # reqs[r])
              => (dbNodes' = dbNodes /\ generations' = generations)
      ]_vars

\* ---------------------------------------------------------------------------
\* The first build of a section
\* ---------------------------------------------------------------------------

\* The generation records of node id, in insertion order
RecordsOf(gs, id) == SelectSeq(gs, LAMBDA g : g.node_id = id)

\* The handler of section node id takes an OK response off in this step, and
\* the node had never been built when the build was started
FirstBuildDone(id) ==
    /\ nodeData[id].type = "section"
    /\ Settling(id)
    /\ reqs[handlers[id].req].status = 200
    /\ attempt.id = id
    /\ attempt.dbNode.status = "draft"
    /\ attempt.nodeData.status = "draft"
    /\ RecordsOf(attempt.generations, id) = <<>>

\* C19: one successful build of a section node that has never been built ends
\* with the node carrying status complete and content version 1, in the
\* persisted node as well as in the client store, and with exactly one
\* generation record of the node, of kind code and version 1
C19_FirstBuild ==
    [][ \A id \in DOMAIN handlers :
          FirstBuildDone(id) =>
              /\ nodeData'[id].status = "complete"
              /\ nodeData'[id].content = 1
              /\ dbNodes'[id].status = "complete"
              /\ dbNodes'[id].content = 1
              /\ RecordsOf(generations', id) = <<[node_id |-> id, type |-> "code", version |-> 1]>>
      ]_vars

\* ---------------------------------------------------------------------------
\* The context projection of the PRD prompt
\* ---------------------------------------------------------------------------

\* C20: the context projection emits one entry for every context node (a
\* competitor without analysis or a design without extraction as a stub, never
\* omitted): when the prompt is built, the number of projected entries equals
\* the number of context nodes
C20_OneEntryPerContextNode ==
    PromptBuilt => Len(prompt) = Len(context)

\* ---------------------------------------------------------------------------
\* The export route's error outcomes
\* ---------------------------------------------------------------------------

\* The export request has been answered
Exported == exportCall # <<>> /\ exportCall.pc = "done"

-----------------------------------------------------------------------------
(* C22 *)

\* The chat request under way names a project of somebody else
ForeignChat ==
    /\ chatCall # <<>>
    /\ chatCall.projectId \in Projects
    /\ ProjectOwner(chatCall.projectId) # chatCall.user

-----------------------------------------------------------------------------
(* C23 *)

\* The routes that write an in-progress status before their AI call
StatusRoutes == {"analyze", "design-extract", "generate-prd"}

\* The request has got past the in-progress write and has finished, with its
\* result or with the error answer of the catch block
FinishedAfterBegin(r) ==
    /\ At(r, "done")
    /\ reqs[r].route \in StatusRoutes
    /\ reqs[r].status \in {200, 500}
    /\ reqs[r].nodeId \in DOMAIN dbNodes

\* C23: once an analyze, design-extract or generate-prd request that wrote the
\* in-progress status has finished, with success or with an error, the
\* persisted status of its node is no longer analyzing, extracting or building
C23_InProgressEnds ==
    \A r \in InFlight :
        FinishedAfterBegin(r) => dbNodes[reqs[r].nodeId].status \notin InProgressStatuses


-----------------------------------------------------------------------------
(* C24 *)

\* Send n starts in this step
SendStarts(n) == n \notin Sending /\ n \in DOMAIN chatSend'

\* Send n finishes in this step
SendFinishes(n) == n \in Sending /\ n \notin DOMAIN chatSend'

\* C24: a send that passes the guard appends exactly one user message and,
\* when it finishes, exactly one assistant message (the reply or the error
\* notice); isLoading is false before the send starts, true from then on and
\* false again when the send finishes, and no send starts while another is
\* under way
C24_SendAppendsPair ==
    [][ \A n \in 1..(MaxSends + 1) :
          /\ SendStarts(n) =>
                /\ ~chatStore.isLoading
                /\ Sending = {}
                /\ chatStore'.isLoading
                /\ chatStore'.messages =
                      Append(chatStore.messages, ChatMessage(chatPanel, "user", n, FALSE))
          /\ SendFinishes(n) =>
                /\ chatStore.isLoading
                /\ ~chatStore'.isLoading
                /\ \E notice \in BOOLEAN :
                      chatStore'.messages =
                         Append(chatStore.messages,
                                ChatMessage(chatSend[n], "assistant", n, notice))
                /\ Cardinality({k \in 1..Len(chatStore'.messages) :
                                  chatStore'.messages[k].send = n}) <= 2
      ]_vars

\* A send has failed: the store ends with the user's message and the error
\* notice, and isLoading is false again
C24_Witness ==
    /\ chatPanel = "p1"
    /\ Sending = {}
    /\ ~chatStore.isLoading
    /\ Len(chatStore.messages) >= 2
    /\ LET n == Len(chatStore.messages)
       IN  /\ chatStore.messages[n - 1] = ChatMessage("p1", "user", 1, FALSE)
           /\ chatStore.messages[n] = ChatMessage("p1", "assistant", 1, TRUE)

-----------------------------------------------------------------------------
(* C25 *)

\* The last n elements of a sequence
LastOf(s, n) == SubSeq(s, Len(s) - n + 1, Len(s))

\* C25: the messages the chat route sends to the model are the project's 10
\* most recent persisted messages (all of them when there are fewer), in
\* chronological order, followed by the current user message
C25_LatestTenSent ==
    ChatAt("ai") =>
        LET ms == MessagesOf(dbMessages, chatCall.projectId)
            n == Min({10, Len(ms)})
            sent == chatCall.messages
        IN  /\ Len(sent) = n + 1
            /\ sent[n + 1] = CurrentMessage(chatCall.projectId)
            /\ Range(SubSeq(sent, 1, n)) = Range(LastOf(ms, n))
            /\ \A i, j \in 1..n : i < j => sent[i].created_at <= sent[j].created_at


-----------------------------------------------------------------------------
(* C26 *)

\* Request r writes its result in this step, after an edit of the node has
\* been saved since the route read the node
WritesOverSavedEdit(r) ==
    /\ reqs[r].pc = "update"
    /\ reqs[r].route \in StatusRoutes
    /\ reqs[r].nodeId \in DOMAIN dbNodes
    /\ reqs[r].currentData.name = "new"
    /\ dbNodes[reqs[r].nodeId].name = "edited"
    /\ r \in DOMAIN reqs'
    /\ reqs'[r].pc # "update"

\* C26: an edit saved while an analysis, extraction or PRD generation of the
\* node is in flight is not lost: after the route has written its result the
\* persisted node carries the edited field, the new result and status complete
C26_SavedEditSurvives ==
    [][ \A r \in InFlight :
          WritesOverSavedEdit(r) =>
              /\ dbNodes'[reqs[r].nodeId].name = "edited"
              /\ dbNodes'[reqs[r].nodeId].status = "complete"
              /\ ResultsOf(dbNodes'[reqs[r].nodeId]) # ResultsOf(NewNodeData(reqs[r].nodeId))
      ]_vars

-----------------------------------------------------------------------------
(* C27 *)

\* C27: an edge drawn on the canvas is part of the graph the resolver walks:
\* for every edge S -> T between two nodes that the canvas shows, the store's
\* edges contain an edge S -> T and getNodeContext(T) includes the data of S
C27_DrawnEdgeIsWalked ==
    \A k \in 1..Len(rfEdges) :
        LET S == rfEdges[k].source
            T == rfEdges[k].target
        IN  S # T =>
                /\ HasEdge(edges, S, T)
                /\ DataOf(S) \in Range(getNodeContext(nodes, edges, T))

-----------------------------------------------------------------------------
(* C28 *)

\* C28: the two selection fields of the canvas store agree: selectedNodeId is
\* set exactly when selectedNodeIds has exactly one element, and is that element
C28_SelectionFieldsAgree ==
    /\ selectedNodeId # NoId <=> Len(selectedNodeIds) = 1
    /\ selectedNodeId # NoId => selectedNodeId = selectedNodeIds[1]

-----------------------------------------------------------------------------
(* C29 *)

\* C29: chat messages never cross projects: every message in the list shown
\* for the open project was added for that project
C29_MessagesOfOpenProject ==
    chatPanel # NoId =>
        \A k \in 1..Len(chatStore.messages) : chatStore.messages[k].project_id = chatPanel

============================================================================
